---------------------------- MODULE Spec2Model ----------------------------
(***************************************************************************)
(* Verification model of cyphernetes: the lexer (src/cmd/lexer.go), the    *)
(* graph sanitizer (src/cmd/cyphernetes/shell-graph.go), the resource-kind *)
(* resolver with its cache and the query executor's request/reply worker   *)
(* (src/cmd/cyphernetes/shell.go).                                         *)
(*                                                                         *)
(* Each component has its own specification over the shared variables:     *)
(*   SpecLex    one lexer, repeated Lex calls on one input                 *)
(*   SpecGraph  one sanitizeGraph call on one graph and result document    *)
(*   SpecGVR    concurrent findGVR calls against one cache                 *)
(*   Spec       callers of getK8sResources and the processRequests worker  *)
(* Text is modelled as a sequence of one-character strings.                *)
(***************************************************************************)
EXTENDS Integers, Sequences, FiniteSets, TLC

VARIABLES
    \* ---- lexer (Lexer struct, lexer.go:16-23, and the caller's lval) ----
    lexInput,       \* the text handed to NewLexer
    lexPos,         \* index of the scanner's next unread character
    bufTok,         \* l.buf.tok, the single-slot lookback
    definingProps,  \* l.definingProps
    strVal,         \* lval.strVal, owned by the parser and reused per call
    lexOut,         \* history of Lex calls: <<[tok, lit]>> as returned
    nScan,          \* number of l.s.Scan() calls made so far
    \* ---- sanitizeGraph (shell-graph.go:16-62) ----
    gpc,            \* "call" before the call, then "ok" | "error" | "panic"
    gIn,            \* the graph argument
    gResult,        \* the parsed result argument
    gOut,           \* the returned graph
    \* ---- resolver (shell.go:571-615) ----
    catalog,        \* what ServerPreferredResources enumerates
    gvrCache,       \* gvrCache, a map from normalized identifier to GVR
    rwReaders,      \* gvrCacheMutex: set of processes holding the read lock
    rwWriter,       \* gvrCacheMutex: set of processes holding the write lock
    procs,          \* per calling goroutine: position inside findGVR, locals
    hist,           \* per calling goroutine: history of finished calls
    \* ---- executor (shell.go:455-569) ----
    callers,        \* per caller of getK8sResources: position, request, reply
    worker,         \* the processRequests goroutine: position, request, result
    semaphore,      \* number of tokens in q.semaphore
    inflight,       \* callers whose fetchResources call is executing
    Namespace,      \* the ambient namespace
    allNamespaces,  \* the all-namespaces flag
    served,         \* number of requests the worker has replied to
    \* ---- interactive shell (runShell, shell.go:130-285) ----
    shPc,           \* "read" inside the loop, then "exit" | "panic"
    multiLineInput, \* multiLineInput
    cmds,           \* cmds, the lines accumulated so far
    shFlags,        \* LogLevel, printQueryExecutionTime, disableColorJsonOutput
    shLines,        \* the lines rl.Readline() has returned
    shRan,          \* what the loop has executed: <<[kind, text]>>
    shHistory,      \* the texts given to rl.SaveHistory
    \* ---- executor singleton (shell.go:437-453, 474-509) ----
    getters,        \* per goroutine calling GetQueryExecutorInstance
    onceDone,       \* once: the done flag
    onceM,          \* once: the goroutines holding its mutex
    executorInstance, \* executorInstance; 0 is nil
    constructions,  \* outcomes of the NewQueryExecutor calls made
    nWorkers,       \* processRequests goroutines started
    nChannels       \* request channels made

lexVars   == <<lexInput, lexPos, bufTok, definingProps, strVal, lexOut, nScan>>
graphVars == <<gpc, gIn, gResult, gOut>>
gvrVars   == <<catalog, gvrCache, rwReaders, rwWriter, procs, hist>>
execVars  == <<callers, worker, semaphore, inflight, Namespace, allNamespaces, served>>
shellVars == <<shPc, multiLineInput, cmds, shFlags, shLines, shRan, shHistory>>
onceVars  == <<getters, onceDone, onceM, executorInstance, constructions,
               nWorkers, nChannels>>
vars      == <<lexVars, graphVars, gvrVars, execVars, shellVars, onceVars>>

\* What the actions of one component leave alone.
lexFrame   == <<graphVars, gvrVars, execVars, shellVars, onceVars>>
graphFrame == <<lexVars, gvrVars, execVars, shellVars, onceVars>>
gvrFrame   == <<lexVars, graphVars, execVars, shellVars, onceVars>>
execFrame  == <<lexVars, graphVars, rwReaders, rwWriter, procs, hist,
                shellVars, onceVars>>
shellFrame == <<lexVars, graphVars, gvrVars, callers, worker, semaphore,
                inflight, allNamespaces, served, onceVars>>
onceFrame  == <<lexVars, graphVars, gvrVars, execVars, shellVars>>

-----------------------------------------------------------------------------
(* Text helpers: strings.ToUpper, strings.ToLower, strings.EqualFold        *)

LowerLetters == <<"a","b","c","d","e","f","g","h","i","j","k","l","m",
                  "n","o","p","q","r","s","t","u","v","w","x","y","z">>
UpperLetters == <<"A","B","C","D","E","F","G","H","I","J","K","L","M",
                  "N","O","P","Q","R","S","T","U","V","W","X","Y","Z">>

Range(f) == {f[i] : i \in DOMAIN f}

IsLower(c) == c \in Range(LowerLetters)
IsUpper(c) == c \in Range(UpperLetters)
IsLetter(c) == IsLower(c) \/ IsUpper(c)
Digits == {"0","1","2","3","4","5","6","7","8","9"}
IsDigit(c) == c \in Digits

\* The case mappings of the ASCII letters.
UpperOf == [c \in Range(LowerLetters) |->
               UpperLetters[CHOOSE i \in DOMAIN LowerLetters : LowerLetters[i] = c]]
LowerOf == [c \in Range(UpperLetters) |->
               LowerLetters[CHOOSE i \in DOMAIN UpperLetters : UpperLetters[i] = c]]

ToUpperChar(c) == IF c \in DOMAIN UpperOf THEN UpperOf[c] ELSE c
ToLowerChar(c) == IF c \in DOMAIN LowerOf THEN LowerOf[c] ELSE c

ToUpper(s) == [i \in DOMAIN s |-> ToUpperChar(s[i])]
ToLower(s) == [i \in DOMAIN s |-> ToLowerChar(s[i])]

\* strings.EqualFold on ASCII text: equal under simple case folding.
EqualFold(a, b) == ToLower(a) = ToLower(b)

\* First index j >= p such that s[p..j-1] lies in S and s[j] does not
\* (Len(s)+1 when the run reaches the end of the text).
SpanEnd(s, p, S) ==
    CHOOSE j \in p..(Len(s) + 1) :
        /\ \A k \in p..(j - 1) : s[k] \in S
        /\ (j = Len(s) + 1 \/ s[j] \notin S)

-----------------------------------------------------------------------------
(* Token codes.  ILLEGAL and WS are declared in lexer.go:11-14; the others  *)
(* are the grammar's token constants, which goyacc numbers from 57346 up.   *)
(* Only their being distinct from one another and from 0 and 1 is used.     *)

ILLEGAL  == 0
WS       == 1
EOF      == 57346
RETURN   == 57347
LBRACE   == 57348
COMMA    == 57349
JSONPATH == 57350
MATCH    == 57351
BOOLEANTOK == 57352
IDENT    == 57353
LPAREN   == 57354
COLON    == 57355
RPAREN   == 57356
RBRACE   == 57357
STRINGTOK == 57358
INT      == 57359

-----------------------------------------------------------------------------
(* text/scanner as NewLexer configures it (lexer.go:25-30): Mode is the     *)
(* default GoTokens, Whitespace is tab, carriage return and space.          *)
(* Covered alphabet: letters, digits 1-9, '_', '"', and single characters;  *)
(* no backslash, quote, backquote, slash or leading "0" in the inputs.      *)

\* Variant: the space is left out of the scanner's whitespace set.
ScanWhitespaceNoSpace == {"\t", "\r"}

ScanWhitespace == {"\t", "\r", " "}

IdentRest      == Range(LowerLetters) \cup Range(UpperLetters) \cup Digits \cup {"_"}
NumberRest     == Digits \cup {"_"}

\* scanNumber(ch, seenDot) with q at the first digit: decimal mantissa,
\* optional fraction, optional exponent; text starts at position from.
ScanNumber(s, from, q, seenDot) ==
    LET m    == IF seenDot THEN q ELSE SpanEnd(s, q, NumberRest)
        dot  == ~seenDot /\ m <= Len(s) /\ s[m] = "."
        f    == IF seenDot THEN SpanEnd(s, q, NumberRest)
                ELSE IF dot THEN SpanEnd(s, m + 1, NumberRest) ELSE m
        isE  == f <= Len(s) /\ ToLowerChar(s[f]) \in {"e", "p"}
        sg   == IF isE /\ f + 1 <= Len(s) /\ s[f + 1] \in {"+", "-"}
                THEN f + 2 ELSE f + 1
        e    == IF isE THEN SpanEnd(s, sg, NumberRest) ELSE f
    IN  [tok  |-> IF seenDot \/ dot \/ isE THEN "Float" ELSE "Int",
         text |-> SubSeq(s, from, e - 1),
         next |-> e]

\* scanString: up to and including the closing quote; an unterminated
\* literal ends with the newline that stops it, or at the end of the text.
ScanString(s, q) ==
    LET stop == CHOOSE j \in (q + 1)..(Len(s) + 1) :
                    /\ \A k \in (q + 1)..(j - 1) : s[k] \notin {"\"", "\n"}
                    /\ (j = Len(s) + 1 \/ s[j] \in {"\"", "\n"})
        e    == IF stop > Len(s) THEN stop ELSE stop + 1
    IN  [tok |-> "String", text |-> SubSeq(s, q, e - 1), next |-> e]

\* Scanner.Scan from position p: the token class ("Ident", "Int", "Float",
\* "String", "EOF") or the character itself, the token text, the new position.
Scan(s, p) ==
    LET q == SpanEnd(s, p, ScanWhitespace)
    IN  IF q > Len(s)
        THEN [tok |-> "EOF", text |-> <<>>, next |-> q]
        ELSE LET ch == s[q]
             IN  IF IsLetter(ch) \/ ch = "_"
                 THEN LET e == SpanEnd(s, q + 1, IdentRest)
                      IN  [tok |-> "Ident", text |-> SubSeq(s, q, e - 1), next |-> e]
                 ELSE IF IsDigit(ch)
                 THEN ScanNumber(s, q, q, FALSE)
                 ELSE IF ch = "\""
                 THEN ScanString(s, q)
                 ELSE IF ch = "." /\ q + 1 <= Len(s) /\ IsDigit(s[q + 1])
                 THEN ScanNumber(s, q, q + 1, TRUE)
                 ELSE [tok |-> ch, text |-> <<ch>>, next |-> q + 1]

-----------------------------------------------------------------------------
(* Lexer.Lex (lexer.go:32-128)                                              *)

RawWhitespace == {" ", "\t", "\n", "\r"}

\* isValidJsonPathChar (lexer.go:131-139)
isValidJsonPathChar(c) ==
    \/ c \in {".", "[", "]", "_", "\"", "*", "$", "#"}
    \/ IsDigit(c)
    \/ IsLetter(c)

\* The characters of the covered alphabet.
LexAlphabet ==
    Range(LowerLetters) \cup Range(UpperLetters) \cup Digits
        \cup {".", "[", "]", "_", "\"", "*", "$", "#", " ", "\t", "\n", "\r",
              ",", ":", "(", ")", "{", "}", "-", "+"}

JsonPathChars == {c \in LexAlphabet : isValidJsonPathChar(c)}

\* The condition under which Lex captures a JSONPATH (lexer.go:40).
CapturingJsonPath(tok, dp) ==
    tok = RETURN \/ tok = LBRACE \/ (tok = COMMA /\ dp)

\* The keyword or identifier an Ident lexes to (lexer.go:67-84).
LexIdent(lit, buf, dp, lv) ==
    IF ToUpper(lit) = <<"M","A","T","C","H">>
    THEN [ret |-> MATCH, buf |-> buf, dp |-> dp, lval |-> lv]
    ELSE IF ToUpper(lit) = <<"R","E","T","U","R","N">>
    THEN [ret |-> RETURN, buf |-> RETURN, dp |-> dp, lval |-> lv]
    ELSE IF ToUpper(lit) = <<"T","R","U","E">> \/ ToUpper(lit) = <<"F","A","L","S","E">>
    THEN [ret |-> BOOLEANTOK, buf |-> buf, dp |-> dp, lval |-> lit]
    ELSE [ret |-> IDENT, buf |-> buf, dp |-> dp, lval |-> lit]

\* What Lex does with a scanned token (the switch, lexer.go:66-127).
LexToken(t, buf, dp, lv) ==
    IF t.tok = "Ident" THEN LexIdent(t.text, buf, dp, lv)
    ELSE IF t.tok = "EOF" THEN [ret |-> EOF, buf |-> EOF, dp |-> dp, lval |-> lv]
    ELSE IF t.tok = "(" THEN [ret |-> LPAREN, buf |-> LPAREN, dp |-> dp, lval |-> lv]
    ELSE IF t.tok = ":" THEN [ret |-> COLON, buf |-> buf, dp |-> TRUE, lval |-> lv]
    ELSE IF t.tok = ")" THEN [ret |-> RPAREN, buf |-> buf, dp |-> FALSE, lval |-> lv]
    ELSE IF t.tok \in {" ", "\t", "\r"} THEN [ret |-> WS, buf |-> buf, dp |-> dp, lval |-> lv]
    ELSE IF t.tok = "{" THEN [ret |-> LBRACE, buf |-> LBRACE, dp |-> dp, lval |-> lv]
    ELSE IF t.tok = "}" THEN [ret |-> RBRACE, buf |-> buf, dp |-> dp, lval |-> lv]
    ELSE IF t.tok = "String" THEN [ret |-> STRINGTOK, buf |-> buf, dp |-> dp, lval |-> t.text]
    ELSE IF t.tok = "Int" THEN [ret |-> INT, buf |-> buf, dp |-> dp, lval |-> t.text]
    ELSE IF t.tok = "," THEN [ret |-> COMMA, buf |-> COMMA, dp |-> dp, lval |-> lv]
    ELSE [ret |-> ILLEGAL, buf |-> buf, dp |-> dp, lval |-> lv]

\* Variant: Lex without the buffered-EOF early return of lexer.go:34-37.
LexRescan(s, p, buf, dp, lv) ==
    IF CapturingJsonPath(buf, dp)
    THEN LET a == SpanEnd(s, p, RawWhitespace)
             b == SpanEnd(s, a, JsonPathChars)
         IN  [ret |-> JSONPATH, pos |-> b, buf |-> ILLEGAL, dp |-> dp,
              lval |-> SubSeq(s, a, b - 1), scans |-> 0]
    ELSE LET t == Scan(s, p)
             r == LexToken(t, buf, dp, lv)
         IN  [ret |-> r.ret, pos |-> t.next, buf |-> r.buf, dp |-> r.dp,
              lval |-> r.lval, scans |-> 1]

\* Variant: a JSONPATH capture leaves the lookback slot as it was.
LexCaptureKeepsSlot(s, p, buf, dp, lv) ==
    IF buf = EOF
    THEN [ret |-> 0, pos |-> p, buf |-> buf, dp |-> dp, lval |-> lv, scans |-> 0]
    ELSE IF CapturingJsonPath(buf, dp)
    THEN LET a == SpanEnd(s, p, RawWhitespace)
             b == SpanEnd(s, a, JsonPathChars)
         IN  [ret |-> JSONPATH, pos |-> b, buf |-> buf, dp |-> dp,
              lval |-> SubSeq(s, a, b - 1), scans |-> 0]
    ELSE LET t == Scan(s, p)
             r == LexToken(t, buf, dp, lv)
         IN  [ret |-> r.ret, pos |-> t.next, buf |-> r.buf, dp |-> r.dp,
              lval |-> r.lval, scans |-> 1]

\* One Lex call from lexer state (s, p, buf, dp) and the caller's lval lv:
\* the returned token code and the state it leaves.  (The scanned token t
\* is bound as a set element so that it is computed once.)
Lex(s, p, buf, dp, lv) ==
    IF buf = EOF
    THEN [ret |-> 0, pos |-> p, buf |-> buf, dp |-> dp, lval |-> lv, scans |-> 0]
    ELSE IF CapturingJsonPath(buf, dp)
    THEN LET a == SpanEnd(s, p, RawWhitespace)
             b == SpanEnd(s, a, JsonPathChars)
         IN  [ret |-> JSONPATH, pos |-> b, buf |-> ILLEGAL, dp |-> dp,
              lval |-> SubSeq(s, a, b - 1), scans |-> 0]
    ELSE CHOOSE out \in
             {LET r == LexToken(t, buf, dp, lv)
              IN  [ret |-> r.ret, pos |-> t.next, buf |-> r.buf, dp |-> r.dp,
                   lval |-> r.lval, scans |-> 1] : t \in {Scan(s, p)}} : TRUE

-----------------------------------------------------------------------------
(* Lexer inputs: the texts of the documented examples, and every            *)
(* concatenation of at most MaxLexemes lexemes.                             *)

MaxLexemes  == 3
MaxEofCalls == 2

TxtMatchNode ==   \* MATCH (d:Deployment)
    <<"M","A","T","C","H"," ","(","d",":","D","e","p","l","o","y","m","e","n","t",")">>
TxtReturnTwo ==   \* RETURN d.metadata.name, d.spec.replicas
    <<"R","E","T","U","R","N"," ","d",".","m","e","t","a","d","a","t","a",".",
      "n","a","m","e",","," ","d",".","s","p","e","c",".","r","e","p","l","i",
      "c","a","s">>
TxtMatchLower == <<"m","a","t","c","h">>
TxtMatchUpper == <<"M","A","T","C","H">>
TxtMatchMixed == <<"M","a","T","c","H">>
TxtMatchBinding ==   \* (Match:Pod)
    <<"(","M","a","t","c","h",":","P","o","d",")">>
TxtProps ==   \* (d:Pod{name: "web", app: "x"})
    <<"(","d",":","P","o","d","{","n","a","m","e",":"," ","\"","w","e","b","\"",
      ","," ","a","p","p",":"," ","\"","x","\"","}",")">>

Examples == {TxtMatchNode, TxtReturnTwo, TxtMatchLower, TxtMatchUpper,
             TxtMatchMixed, TxtMatchBinding, TxtProps}

Lexemes == {<<"R","e","t","u","r","n">>, <<"M","a","t","c","h">>, <<"a",".","b">>,
            <<"(">>, <<")">>, <<"{">>, <<"}">>, <<",">>, <<":">>, <<" ">>, <<"\n">>}

RECURSIVE Concat(_)
Concat(ss) == IF ss = <<>> THEN <<>> ELSE Head(ss) \o Concat(Tail(ss))

LexInputs ==
    Examples \cup {Concat(ss) : ss \in UNION {[1..n -> Lexemes] : n \in 0..MaxLexemes}}

\* Number of Lex calls made after the one that returned EOF.
AfterEof ==
    IF \E i \in DOMAIN lexOut : lexOut[i].tok = EOF
    THEN Len(lexOut) - (CHOOSE i \in DOMAIN lexOut : lexOut[i].tok = EOF)
    ELSE 0

\* NewLexer (lexer.go:25-30): zero-valued buf and definingProps.
LexInit ==
    /\ lexInput \in LexInputs
    /\ lexPos = 1
    /\ bufTok = ILLEGAL
    /\ definingProps = FALSE
    /\ strVal = <<>>
    /\ lexOut = <<>>
    /\ nScan = 0

LexIdle ==
    /\ lexInput = <<>>
    /\ lexPos = 1
    /\ bufTok = ILLEGAL
    /\ definingProps = FALSE
    /\ strVal = <<>>
    /\ lexOut = <<>>
    /\ nScan = 0

\* The parser calls Lex once more.
LexCall ==
    /\ AfterEof < MaxEofCalls
    /\ \E r \in {Lex(lexInput, lexPos, bufTok, definingProps, strVal)} :
           /\ lexPos' = r.pos
           /\ bufTok' = r.buf
           /\ definingProps' = r.dp
           /\ strVal' = r.lval
           /\ lexOut' = Append(lexOut, [tok |-> r.ret, lit |-> r.lval])
           /\ nScan' = nScan + r.scans
    /\ UNCHANGED lexInput
    /\ UNCHANGED lexFrame

-----------------------------------------------------------------------------
(* sanitizeGraph (shell-graph.go:16-62).  A node is [Id, Kind, Name], an    *)
(* edge is [From, To, Type]; the result document maps a node's Id to null   *)
(* (or nothing), to a list of documents (each reduced to its "name" field), *)
(* or to a value that is not a list.                                        *)

MaxNodes == 2
MaxEdges == 2
MaxDocs  == 2

Pod == <<"P","o","d">>
Svc == <<"S","v","c">>

\* fmt.Sprintf("%s/%s", kind, name)
SprintfId(kind, name) == kind \o <<"/">> \o name

NodeUniverse ==
    {[Id |-> "p", Kind |-> Pod, Name |-> <<"a">>],
     [Id |-> "q", Kind |-> Pod, Name |-> <<"a">>],
     [Id |-> "q", Kind |-> Pod, Name |-> <<"b">>],
     [Id |-> "p", Kind |-> Svc, Name |-> <<"a">>]}

EdgeUniverse ==
    {[From |-> ft[1], To |-> ft[2], Type |-> "REL"] :
        ft \in {<<SprintfId(Pod, <<"a">>), SprintfId(Svc, <<"a">>)>>,
                <<SprintfId(Svc, <<"a">>), SprintfId(Pod, <<"a">>)>>,
                <<SprintfId(Pod, <<"a">>), SprintfId(Pod, <<"b">>)>>}}

SeqsUpTo(S, n) == UNION {[1..k -> S] : k \in 0..n}

Null     == [kind |-> "null", docs |-> <<>>]
NotAList == [kind |-> "other", docs |-> <<>>]
DocNames == {<<"a">>}
ResultValues ==
    {Null, NotAList} \cup {[kind |-> "list", docs |-> d] : d \in SeqsUpTo(DocNames, MaxDocs)}
ResultKeys == {n.Id : n \in NodeUniverse}

\* json.Unmarshal(result): either an error or the map.
ResultUniverse ==
    {[valid |-> FALSE, map |-> [k \in ResultKeys |-> Null]]}
        \cup {[valid |-> TRUE, map |-> m] : m \in [ResultKeys -> ResultValues]}

\* nodeMap[nodeId] = node for every node in order: the last one stays.
NodeMap(nodes) ==
    [id \in {SprintfId(nodes[i].Kind, nodes[i].Name) : i \in DOMAIN nodes} |->
        nodes[CHOOSE i \in DOMAIN nodes :
                 /\ SprintfId(nodes[i].Kind, nodes[i].Name) = id
                 /\ \A j \in DOMAIN nodes :
                        j > i => SprintfId(nodes[j].Kind, nodes[j].Name) # id]]

\* The orders in which "range nodeMap" may enumerate the map.
MapOrders(m) ==
    {[i \in 1..Cardinality(DOMAIN m) |-> m[o[i]]] :
        o \in {f \in [1..Cardinality(DOMAIN m) -> DOMAIN m] :
                  \A i, j \in DOMAIN f : i # j => f[i] # f[j]}}

RECURSIVE MatchingDocs(_, _)
\* The node, appended once per document whose "name" equals node.Name.
MatchingDocs(node, docs) ==
    IF docs = <<>> THEN <<>>
    ELSE (IF Head(docs) = node.Name THEN <<node>> ELSE <<>>)
             \o MatchingDocs(node, Tail(docs))

RECURSIVE FilterNodes(_, _)
\* shell-graph.go:36-45
FilterNodes(nodes, rm) ==
    IF nodes = <<>> THEN <<>>
    ELSE (IF rm[Head(nodes).Id] = Null THEN <<>>
          ELSE MatchingDocs(Head(nodes), rm[Head(nodes).Id].docs))
             \o FilterNodes(Tail(nodes), rm)

\* slices.Contains
Contains(seq, x) == \E i \in DOMAIN seq : seq[i] = x

\* Variant: an edge is kept when either endpoint survives.
KeepEdgeEither(ids, edge) == Contains(ids, edge.From) \/ Contains(ids, edge.To)

\* The edge test of shell-graph.go:56.
KeepEdge(ids, edge) == Contains(ids, edge.From) /\ Contains(ids, edge.To)

\* shell-graph.go:48-60
FilterEdges(edges, filteredNodes) ==
    LET filteredNodeIds ==
            [i \in DOMAIN filteredNodes |->
                SprintfId(filteredNodes[i].Kind, filteredNodes[i].Name)]
    IN  SelectSeq(edges, LAMBDA e : KeepEdge(filteredNodeIds, e))

\* sanitizeGraph(g, result) when the node map enumerates as `unique`.
sanitizeGraph(g, result, unique) ==
    IF ~result.valid
    THEN [status |-> "error", graph |-> [Nodes |-> unique, Edges |-> g.Edges]]
    ELSE IF \E i \in DOMAIN unique : result.map[unique[i].Id] = NotAList
    THEN [status |-> "panic", graph |-> [Nodes |-> <<>>, Edges |-> <<>>]]
    ELSE LET filteredNodes == FilterNodes(unique, result.map)
         IN  [status |-> "ok",
              graph  |-> [Nodes |-> filteredNodes,
                          Edges |-> FilterEdges(g.Edges, filteredNodes)]]

GraphInit ==
    /\ gpc = "call"
    /\ gIn \in {[Nodes |-> ns, Edges |-> es] :
                   ns \in SeqsUpTo(NodeUniverse, MaxNodes),
                   es \in SeqsUpTo(EdgeUniverse, MaxEdges)}
    /\ gResult \in ResultUniverse
    /\ gOut = [Nodes |-> <<>>, Edges |-> <<>>]

GraphIdle ==
    /\ gpc = "idle"
    /\ gIn = [Nodes |-> <<>>, Edges |-> <<>>]
    /\ gResult = [valid |-> FALSE, map |-> [k \in ResultKeys |-> Null]]
    /\ gOut = [Nodes |-> <<>>, Edges |-> <<>>]

\* drawGraph calls sanitizeGraph(graph, result) (shell-graph.go:65).
SanitizeCall ==
    /\ gpc = "call"
    /\ \E unique \in MapOrders(NodeMap(gIn.Nodes)) :
          LET r == sanitizeGraph(gIn, gResult, unique)
          IN  /\ gpc' = r.status
              /\ gOut' = r.graph
    /\ UNCHANGED <<gIn, gResult>>
    /\ UNCHANGED graphFrame

-----------------------------------------------------------------------------
(* findGVR and the resolver cache (shell.go:571-625).  The discovery        *)
(* catalog is the flattened enumeration of ServerPreferredResources: one    *)
(* entry per (apiResource.GroupVersion, resource), in scan order.  A        *)
(* GroupVersion string is a sequence of segments with "/" as a segment.     *)

NumProcs   == 2     \* goroutines that call findGVR
MaxCalls   == 2     \* findGVR calls made in total
MaxCatalog == 2     \* entries in the discovery catalog

TxtServices == <<"s","e","r","v","i","c","e","s">>
TxtService  == <<"S","e","r","v","i","c","e">>
TxtSvc      == <<"s","v","c">>
TxtKsvc     == <<"k","s","v","c">>
TxtKSVC     == <<"K","S","V","C">>
TxtNope     == <<"n","o","p","e">>

\* Two kinds that share plural name and Kind (the core Service and the
\* Knative Service), and an entry whose GroupVersion does not parse.
CatalogEntries ==
    {[GroupVersion |-> <<"v1">>, Name |-> TxtServices, Kind |-> TxtService,
      ShortNames |-> <<TxtSvc>>],
     [GroupVersion |-> <<"serving.knative.dev", "/", "v1">>, Name |-> TxtServices,
      Kind |-> TxtService, ShortNames |-> <<TxtKsvc>>],
     [GroupVersion |-> <<"a", "/", "b", "/", "c">>, Name |-> TxtServices,
      Kind |-> TxtService, ShortNames |-> <<>>]}

\* Catalogs: every enumeration order of at most MaxCatalog distinct entries.
Catalogs ==
    {c \in SeqsUpTo(CatalogEntries, MaxCatalog) :
        \A i, j \in DOMAIN c : i # j => c[i] # c[j]}

\* The identifiers resolved: a plural name, a Kind, a short name in two
\* spellings (not found in a catalog without the Knative entry).
Identifiers == {TxtServices, TxtService, TxtKsvc, TxtKSVC}

Procs == 1..NumProcs

NoGVR == [Group |-> "", Version |-> "", Resource |-> <<>>]

\* schema.ParseGroupVersion followed by gv.WithResource(resource)
\* (shell.go:598-602): no "/" is a bare version, one "/" is group/version,
\* more is an error.
ParseGroupVersion(gv) ==
    LET slashes == Cardinality({i \in DOMAIN gv : gv[i] = "/"})
    IN  IF gv = <<>> \/ gv = <<"/">> THEN [ok |-> TRUE, Group |-> "", Version |-> ""]
        ELSE IF slashes = 0 THEN [ok |-> TRUE, Group |-> "", Version |-> gv[1]]
        ELSE IF slashes = 1 /\ Len(gv) = 3 /\ gv[2] = "/"
        THEN [ok |-> TRUE, Group |-> gv[1], Version |-> gv[3]]
        ELSE [ok |-> FALSE, Group |-> "", Version |-> ""]

\* containsIgnoreCase (shell.go:618-625)
containsIgnoreCase(slice, str) == \E i \in DOMAIN slice : EqualFold(slice[i], str)

\* Variant: the Kind name is not compared.
MatchesResourceNoKind(resource, resourceIdentifier, normalizedIdentifier) ==
    \/ EqualFold(resource.Name, normalizedIdentifier)
    \/ containsIgnoreCase(resource.ShortNames, normalizedIdentifier)

\* The match test of shell.go:594-596.
MatchesResource(resource, resourceIdentifier, normalizedIdentifier) ==
    \/ EqualFold(resource.Name, normalizedIdentifier)
    \/ EqualFold(resource.Kind, resourceIdentifier)
    \/ containsIgnoreCase(resource.ShortNames, normalizedIdentifier)

\* The errors findGVR returns, as text: no error; what
\* ServerPreferredResources may fail with (shell.go:588-590); the
\* fmt.Errorf of shell.go:614; the error of schema.ParseGroupVersion.
NoError == <<>>
DiscoveryErrors == {<<"forbidden">>}

\* Variant: the message names the identifier in its normalized spelling.
NotFoundErrorNormalized(resourceIdentifier) ==
    <<"resource identifier not found: ">> \o ToLower(resourceIdentifier)

\* fmt.Errorf("resource identifier not found: %s", resourceIdentifier)
NotFoundError(resourceIdentifier) ==
    <<"resource identifier not found: ">> \o resourceIdentifier

ParseGroupVersionError(gv) == <<"unexpected GroupVersion string: ">> \o gv

\* Variant: the scan keeps going and the last matching entry wins.
ScanCatalogLast(list, resourceIdentifier) ==
    LET normalizedIdentifier == ToLower(resourceIdentifier)
        hits == {i \in DOMAIN list :
                    MatchesResource(list[i], resourceIdentifier, normalizedIdentifier)}
    IN  IF hits = {}
        THEN [status |-> "notfound", gvr |-> NoGVR,
              err |-> NotFoundError(resourceIdentifier)]
        ELSE LET last == CHOOSE i \in hits : \A j \in hits : i >= j
                 gv   == ParseGroupVersion(list[last].GroupVersion)
             IN  IF ~gv.ok
                 THEN [status |-> "parseerr", gvr |-> NoGVR,
                       err |-> ParseGroupVersionError(list[last].GroupVersion)]
                 ELSE [status |-> "ok",
                       gvr |-> [Group |-> gv.Group, Version |-> gv.Version,
                                Resource |-> list[last].Name],
                       err |-> NoError]

\* The scan of shell.go:592-614 over a discovery result: the outcome of
\* the first matching entry, or not found.
ScanCatalog(list, resourceIdentifier) ==
    LET normalizedIdentifier == ToLower(resourceIdentifier)
        hits == {i \in DOMAIN list :
                    MatchesResource(list[i], resourceIdentifier, normalizedIdentifier)}
    IN  IF hits = {}
        THEN [status |-> "notfound", gvr |-> NoGVR,
              err |-> NotFoundError(resourceIdentifier)]
        ELSE LET first == CHOOSE i \in hits : \A j \in hits : i <= j
                 gv    == ParseGroupVersion(list[first].GroupVersion)
             IN  IF ~gv.ok
                 THEN [status |-> "parseerr", gvr |-> NoGVR,
                       err |-> ParseGroupVersionError(list[first].GroupVersion)]
                 ELSE [status |-> "ok",
                       gvr |-> [Group |-> gv.Group, Version |-> gv.Version,
                                Resource |-> list[first].Name],
                       err |-> NoError]

\* Variant: the insertion replaces the map by one holding only the new entry.
CachePutFresh(cache, key, gvr) == [k \in {key} |-> gvr]

\* gvrCache[key] = gvr
CachePut(cache, key, gvr) ==
    [k \in DOMAIN cache \cup {key} |-> IF k = key THEN gvr ELSE cache[k]]

IdleProc == [pc |-> "idle", id |-> <<>>, key |-> <<>>, gvr |-> NoGVR, disc |-> 0]

\* Number of findGVR calls started so far.
CallsMade ==
    LET RECURSIVE Sum(_)
        Sum(S) == IF S = {} THEN 0
                  ELSE LET p == CHOOSE x \in S : TRUE
                       IN  Len(hist[p]) + (IF procs[p].pc = "idle" THEN 0 ELSE 1)
                               + Sum(S \ {p})
    IN  Sum(Procs)

GVRInit ==
    /\ catalog \in Catalogs
    /\ gvrCache = <<>>
    /\ rwReaders = {}
    /\ rwWriter = {}
    /\ procs = [p \in Procs |-> IdleProc]
    /\ hist = [p \in Procs |-> <<>>]

GVRIdle ==
    /\ catalog = <<>>
    /\ gvrCache = <<>>
    /\ rwReaders = {}
    /\ rwWriter = {}
    /\ procs = [p \in Procs |-> IdleProc]
    /\ hist = [p \in Procs |-> <<>>]

\* A findGVR call returns: the caller records what it got.
Return(p, status, gvr, disc, err) ==
    /\ hist' = [hist EXCEPT ![p] =
                   Append(@, [id |-> procs[p].id, status |-> status, gvr |-> gvr,
                              disc |-> disc, err |-> err])]
    /\ procs' = [procs EXCEPT ![p] = IdleProc]

\* Variant: the identifier is used as the cache key as the caller spelled it.
FindGVRCallRawKey(p) ==
    /\ procs[p].pc = "idle"
    /\ CallsMade < MaxCalls
    /\ \E id \in Identifiers :
          procs' = [procs EXCEPT ![p] =
                       [pc |-> "rlock", id |-> id, key |-> id,
                        gvr |-> NoGVR, disc |-> 0]]
    /\ UNCHANGED <<catalog, gvrCache, rwReaders, rwWriter, hist>>
    /\ UNCHANGED gvrFrame

\* shell.go:574-575: entry, normalizedIdentifier := strings.ToLower(...)
FindGVRCall(p) ==
    /\ procs[p].pc = "idle"
    /\ CallsMade < MaxCalls
    /\ \E id \in Identifiers :
          procs' = [procs EXCEPT ![p] =
                       [pc |-> "rlock", id |-> id, key |-> ToLower(id),
                        gvr |-> NoGVR, disc |-> 0]]
    /\ UNCHANGED <<catalog, gvrCache, rwReaders, rwWriter, hist>>
    /\ UNCHANGED gvrFrame

\* shell.go:578: gvrCacheMutex.RLock()
RLock(p) ==
    /\ procs[p].pc = "rlock"
    /\ rwWriter = {}
    /\ rwReaders' = rwReaders \cup {p}
    /\ procs' = [procs EXCEPT ![p].pc = "check"]
    /\ UNCHANGED <<catalog, gvrCache, rwWriter, hist>>
    /\ UNCHANGED gvrFrame

\* Variant: on a miss the read lock is kept while discovery is called.
CheckCacheKeepingLock(p) ==
    /\ procs[p].pc = "check"
    /\ IF procs[p].key \in DOMAIN gvrCache
       THEN /\ rwReaders' = rwReaders \ {p}
            /\ Return(p, "ok", gvrCache[procs[p].key], 0, NoError)
       ELSE /\ rwReaders' = rwReaders
            /\ procs' = [procs EXCEPT ![p].pc = "discovering", ![p].disc = @ + 1]
            /\ UNCHANGED hist
    /\ UNCHANGED <<catalog, gvrCache, rwWriter>>
    /\ UNCHANGED gvrFrame

\* shell.go:579-587: the cache lookup and RUnlock; a hit returns, a miss
\* goes on to call ServerPreferredResources().
CheckCache(p) ==
    /\ procs[p].pc = "check"
    /\ rwReaders' = rwReaders \ {p}
    /\ IF procs[p].key \in DOMAIN gvrCache
       THEN Return(p, "ok", gvrCache[procs[p].key], 0, NoError)
       ELSE /\ procs' = [procs EXCEPT ![p].pc = "discovering", ![p].disc = @ + 1]
            /\ UNCHANGED hist
    /\ UNCHANGED <<catalog, gvrCache, rwWriter>>
    /\ UNCHANGED gvrFrame

\* shell.go:588-590: the discovery call fails and its error is returned.
DiscoveryFails(p) ==
    /\ procs[p].pc = "discovering"
    /\ \E e \in DiscoveryErrors : Return(p, "discoveryerr", NoGVR, procs[p].disc, e)
    /\ UNCHANGED <<catalog, gvrCache, rwReaders, rwWriter>>
    /\ UNCHANGED gvrFrame

\* shell.go:592-614: the discovery call returns the catalog and it is
\* scanned; without a usable match the call returns an error.
DiscoveryReturns(p) ==
    /\ procs[p].pc = "discovering"
    /\ LET r == ScanCatalog(catalog, procs[p].id)
       IN  IF r.status = "ok"
           THEN /\ procs' = [procs EXCEPT ![p].pc = "lock", ![p].gvr = r.gvr]
                /\ UNCHANGED hist
           ELSE Return(p, r.status, NoGVR, procs[p].disc, r.err)
    /\ UNCHANGED <<catalog, gvrCache, rwReaders, rwWriter>>
    /\ UNCHANGED gvrFrame

\* shell.go:605: gvrCacheMutex.Lock()
Lock(p) ==
    /\ procs[p].pc = "lock"
    /\ rwWriter = {}
    /\ rwReaders = {}
    /\ rwWriter' = {p}
    /\ procs' = [procs EXCEPT ![p].pc = "write"]
    /\ UNCHANGED <<catalog, gvrCache, rwReaders, hist>>
    /\ UNCHANGED gvrFrame

\* Variant: the entry is stored under the identifier as the caller spelled it.
WriteCacheRawKey(p) ==
    /\ procs[p].pc = "write"
    /\ gvrCache' = CachePut(gvrCache, procs[p].id, procs[p].gvr)
    /\ procs' = [procs EXCEPT ![p].pc = "unlock"]
    /\ UNCHANGED <<catalog, rwReaders, rwWriter, hist>>
    /\ UNCHANGED gvrFrame

\* shell.go:606: gvrCache[normalizedIdentifier] = gvr
WriteCache(p) ==
    /\ procs[p].pc = "write"
    /\ gvrCache' = CachePut(gvrCache, procs[p].key, procs[p].gvr)
    /\ procs' = [procs EXCEPT ![p].pc = "unlock"]
    /\ UNCHANGED <<catalog, rwReaders, rwWriter, hist>>
    /\ UNCHANGED gvrFrame

\* shell.go:607-609: gvrCacheMutex.Unlock(); return gvr, nil
Unlock(p) ==
    /\ procs[p].pc = "unlock"
    /\ rwWriter' = rwWriter \ {p}
    /\ Return(p, "ok", procs[p].gvr, procs[p].disc, NoError)
    /\ UNCHANGED <<catalog, gvrCache, rwReaders>>
    /\ UNCHANGED gvrFrame

-----------------------------------------------------------------------------
(* The query executor (shell.go:455-569): callers of getK8sResources, the   *)
(* processRequests goroutine, the semaphore, and fetchResources.            *)

NumCallers  == 2    \* goroutines that call getK8sResources, once each

SemCapacity == 1    \* make(chan struct{}, 1)

Callers == 1..NumCallers

\* The catalog the executor's cluster serves.
ExecCatalog ==
    <<[GroupVersion |-> <<"v1">>, Name |-> TxtServices, Kind |-> TxtService,
       ShortNames |-> <<TxtSvc>>]>>

\* Requests: (kind, fieldSelector, labelSelector).
RequestUniverse ==
    {[kind |-> TxtService, fieldSelector |-> "", labelSelector |-> "app==web"],
     [kind |-> TxtSvc, fieldSelector |-> "metadata.name=web", labelSelector |-> ""],
     [kind |-> TxtNope, fieldSelector |-> "", labelSelector |-> ""],
     [kind |-> TxtService, fieldSelector |-> "", labelSelector |-> "app in ("]}

NoRequest == [kind |-> <<>>, fieldSelector |-> "", labelSelector |-> ""]

\* metav1.ParseToLabelSelector, LabelSelectorAsSelector and String() on the
\* selectors above: the canonical text, or an error for a malformed one.
LabelSelectorString(labelSelector) ==
    IF labelSelector = "" THEN [ok |-> TRUE, text |-> ""]
    ELSE IF labelSelector \in {"app=web", "app==web"} THEN [ok |-> TRUE, text |-> "app=web"]
    ELSE [ok |-> FALSE, text |-> ""]

\* var emptyList unstructured.UnstructuredList
emptyList == [gvr |-> NoGVR, namespace |-> "", fieldSelector |-> "", labelSelector |-> ""]

NoResponse == [list |-> emptyList, err |-> "none"]

\* findGVR run to completion by the one worker (shell.go:574-615):
\* `discovered` is what ServerPreferredResources returns if it is called.
findGVR(cache, discovered, resourceIdentifier) ==
    LET key == ToLower(resourceIdentifier)
    IN  IF key \in DOMAIN cache
        THEN [status |-> "ok", gvr |-> cache[key], cache |-> cache]
        ELSE IF ~discovered.ok
        THEN [status |-> "discoveryerr", gvr |-> NoGVR, cache |-> cache]
        ELSE LET r == ScanCatalog(discovered.list, resourceIdentifier)
             IN  [status |-> r.status, gvr |-> r.gvr,
                  cache |-> IF r.status = "ok" THEN CachePut(cache, key, r.gvr)
                            ELSE cache]

\* Variant: a label selector that does not parse is treated as no selector.
fetchResourcesLenient(req, cache, ns, allNs, discovered, listOk) ==
    LET g   == findGVR(cache, discovered, req.kind)
        sel == LabelSelectorString(req.labelSelector)
        ns2 == IF allNs THEN "" ELSE ns
    IN  IF g.status # "ok"
        THEN [list |-> emptyList, err |-> g.status, cache |-> g.cache, ns |-> ns]
        ELSE IF ~listOk
        THEN [list |-> emptyList, err |-> "listerr", cache |-> g.cache, ns |-> ns2]
        ELSE [list |-> [gvr |-> g.gvr, namespace |-> ns2,
                        fieldSelector |-> req.fieldSelector,
                        labelSelector |-> sel.text],
              err |-> "nil", cache |-> g.cache, ns |-> ns2]

\* fetchResources (shell.go:533-569): the list and error it returns, and
\* the cache and Namespace it leaves.  `listOk` is whether the List call
\* succeeds.
fetchResources(req, cache, ns, allNs, discovered, listOk) ==
    LET g   == findGVR(cache, discovered, req.kind)
        sel == LabelSelectorString(req.labelSelector)
        ns2 == IF allNs THEN "" ELSE ns
    IN  IF g.status # "ok"
        THEN [list |-> emptyList, err |-> g.status, cache |-> g.cache, ns |-> ns]
        ELSE IF ~sel.ok
        THEN [list |-> emptyList, err |-> "selectorerr", cache |-> g.cache, ns |-> ns]
        ELSE IF ~listOk
        THEN [list |-> emptyList, err |-> "listerr", cache |-> g.cache, ns |-> ns2]
        ELSE [list |-> [gvr |-> g.gvr, namespace |-> ns2,
                        fieldSelector |-> req.fieldSelector,
                        labelSelector |-> sel.text],
              err |-> "nil", cache |-> g.cache, ns |-> ns2]

IdleCaller == [pc |-> "idle", req |-> NoRequest, resp |-> NoResponse]
\* The worker also keeps whether the List call of its last fetch succeeded
\* (TRUE when the fetch returned before making it).
IdleWorker ==
    [pc |-> "recv", to |-> 0, req |-> NoRequest, resp |-> NoResponse, listOk |-> TRUE]

\* NewQueryExecutor (shell.go:496-508): empty semaphore, unbuffered request
\* channel, one processRequests goroutine waiting on it.
ExecInit ==
    /\ callers = [c \in Callers |-> IdleCaller]
    /\ worker = IdleWorker
    /\ semaphore = 0
    /\ inflight = {}
    /\ Namespace \in {"default", ""}
    /\ allNamespaces \in BOOLEAN
    /\ served = 0

ExecIdle ==
    /\ callers = [c \in Callers |-> IdleCaller]
    /\ worker = IdleWorker
    /\ semaphore = 0
    /\ inflight = {}
    /\ Namespace = "default"
    /\ allNamespaces = FALSE
    /\ served = 0

\* getK8sResources, shell.go:521-527: the caller makes its response channel
\* and blocks sending the request.
Submit(c) ==
    /\ callers[c].pc = "idle"
    /\ \E req \in RequestUniverse :
          callers' = [callers EXCEPT ![c] = [pc |-> "send", req |-> req,
                                             resp |-> NoResponse]]
    /\ UNCHANGED <<worker, semaphore, inflight, Namespace, allNamespaces, served,
                   catalog, gvrCache>>
    /\ UNCHANGED execFrame

\* Variant: the worker takes caller c's request but notes the response
\* channel of another caller that is blocked sending.
ReceiveCrossed(c) ==
    /\ worker.pc = "recv"
    /\ callers[c].pc = "send"
    /\ \E d \in Callers :
          /\ callers[d].pc = "send"
          /\ worker' = [worker EXCEPT !.pc = "acquire", !.to = d, !.req = callers[c].req]
          /\ callers' = [callers EXCEPT ![d].pc = "wait"]
    /\ UNCHANGED <<semaphore, inflight, Namespace, allNamespaces, served,
                   catalog, gvrCache>>
    /\ UNCHANGED execFrame

\* shell.go:512 with shell.go:522: the unbuffered request channel hands
\* caller c's request to the worker; c goes on to wait for its reply.
Receive(c) ==
    /\ worker.pc = "recv"
    /\ callers[c].pc = "send"
    /\ worker' = [worker EXCEPT !.pc = "acquire", !.to = c, !.req = callers[c].req]
    /\ callers' = [callers EXCEPT ![c].pc = "wait"]
    /\ UNCHANGED <<semaphore, inflight, Namespace, allNamespaces, served,
                   catalog, gvrCache>>
    /\ UNCHANGED execFrame

\* shell.go:513: q.semaphore <- struct{}{}
Acquire ==
    /\ worker.pc = "acquire"
    /\ semaphore < SemCapacity
    /\ semaphore' = semaphore + 1
    /\ worker' = [worker EXCEPT !.pc = "fetch"]
    /\ UNCHANGED <<callers, inflight, Namespace, allNamespaces, served,
                   catalog, gvrCache>>
    /\ UNCHANGED execFrame

\* Variant: the fetch is started without being waited for; the worker gives
\* the token back and takes the next request.
FetchCallDetached ==
    /\ worker.pc = "fetch"
    /\ inflight' = inflight \cup {worker.to}
    /\ semaphore' = semaphore - 1
    /\ worker' = IdleWorker
    /\ UNCHANGED <<callers, Namespace, allNamespaces, served, catalog, gvrCache>>
    /\ UNCHANGED execFrame

\* shell.go:514: fetchResources is entered.
FetchCall ==
    /\ worker.pc = "fetch"
    /\ inflight' = inflight \cup {worker.to}
    /\ worker' = [worker EXCEPT !.pc = "fetching"]
    /\ UNCHANGED <<callers, semaphore, Namespace, allNamespaces, served,
                   catalog, gvrCache>>
    /\ UNCHANGED execFrame

\* shell.go:514: fetchResources returns.
FetchReturn ==
    /\ worker.pc = "fetching"
    /\ \E discOk \in BOOLEAN, listOk \in BOOLEAN :
          LET r == fetchResources(worker.req, gvrCache, Namespace, allNamespaces,
                                  [ok |-> discOk, list |-> catalog], listOk)
          IN  /\ worker' = [worker EXCEPT !.pc = "release",
                                          !.resp = [list |-> r.list, err |-> r.err],
                                          !.listOk =
                                              listOk \/ r.err \notin {"nil", "listerr"}]
              /\ gvrCache' = r.cache
              /\ Namespace' = r.ns
    /\ inflight' = inflight \ {worker.to}
    /\ UNCHANGED <<callers, semaphore, allNamespaces, served, catalog>>
    /\ UNCHANGED execFrame

\* Variant: the token is given back only after a fetch that succeeded.
ReleaseOnSuccess ==
    /\ worker.pc = "release"
    /\ semaphore > 0
    /\ semaphore' = IF worker.resp.err = "nil" THEN semaphore - 1 ELSE semaphore
    /\ worker' = [worker EXCEPT !.pc = "reply"]
    /\ UNCHANGED <<callers, inflight, Namespace, allNamespaces, served,
                   catalog, gvrCache>>
    /\ UNCHANGED execFrame

\* shell.go:515: <-q.semaphore
Release ==
    /\ worker.pc = "release"
    /\ semaphore > 0
    /\ semaphore' = semaphore - 1
    /\ worker' = [worker EXCEPT !.pc = "reply"]
    /\ UNCHANGED <<callers, inflight, Namespace, allNamespaces, served,
                   catalog, gvrCache>>
    /\ UNCHANGED execFrame

\* Variant: the worker drops the reply and goes back to receiving.
ReplyDropped ==
    /\ worker.pc = "reply"
    /\ worker' = IdleWorker
    /\ UNCHANGED <<callers, semaphore, inflight, Namespace, allNamespaces, served,
                   catalog, gvrCache>>
    /\ UNCHANGED execFrame

\* shell.go:516 with shell.go:529-530: the reply goes over the request's
\* own response channel to the caller waiting on it.
Reply ==
    /\ worker.pc = "reply"
    /\ callers[worker.to].pc = "wait"
    /\ callers' = [callers EXCEPT ![worker.to] = [@ EXCEPT !.pc = "done",
                                                          !.resp = worker.resp]]
    /\ worker' = IdleWorker
    /\ served' = served + 1
    /\ UNCHANGED <<semaphore, inflight, Namespace, allNamespaces, catalog, gvrCache>>
    /\ UNCHANGED execFrame

-----------------------------------------------------------------------------
(* Interactive shell: the read loop of runShell (shell.go:157-285)          *)

\* strings.HasPrefix, strings.HasSuffix, strings.TrimPrefix, strings.TrimSuffix.
HasPrefix(s, prefix) ==
    Len(s) >= Len(prefix) /\ SubSeq(s, 1, Len(prefix)) = prefix

HasSuffix(s, suffix) ==
    Len(s) >= Len(suffix) /\ SubSeq(s, Len(s) - Len(suffix) + 1, Len(s)) = suffix

TrimPrefix(s, prefix) ==
    IF HasPrefix(s, prefix) THEN SubSeq(s, Len(prefix) + 1, Len(s)) ELSE s

TrimSuffix(s, suffix) ==
    IF HasSuffix(s, suffix) THEN SubSeq(s, 1, Len(s) - Len(suffix)) ELSE s

\* The white space of strings.TrimSpace and strings.Fields, on ASCII text
\* (the vertical tab, which no line below contains, is left out).
AsciiSpace == {" ", "\t", "\n", "\r", "\f"}

\* strings.TrimSpace: leading and trailing white space removed.
TrimSpace(s) ==
    LET inked == {i \in DOMAIN s : s[i] \notin AsciiSpace}
    IN  IF inked = {} THEN <<>>
        ELSE SubSeq(s, CHOOSE i \in inked : \A j \in inked : i <= j,
                       CHOOSE i \in inked : \A j \in inked : j <= i)

\* strings.Join.
RECURSIVE Join(_, _)
Join(elems, sep) ==
    IF elems = <<>> THEN <<>>
    ELSE IF Len(elems) = 1 THEN elems[1]
    ELSE elems[1] \o sep \o Join(Tail(elems), sep)

\* strings.Fields: the maximal runs of characters that are not white space.
RECURSIVE FieldsFrom(_, _)
FieldsFrom(s, i) ==
    IF i > Len(s) THEN <<>>
    ELSE IF s[i] \in AsciiSpace THEN FieldsFrom(s, i + 1)
    ELSE LET e == CHOOSE j \in i..Len(s) :
                      /\ \A k \in i..j : s[k] \notin AsciiSpace
                      /\ j = Len(s) \/ s[j + 1] \in AsciiSpace
         IN  <<SubSeq(s, i, e)>> \o FieldsFrom(s, e + 1)

Fields(s) == FieldsFrom(s, 1)

TxtExit == <<"e","x","i","t">>
TxtHelp == <<"h","e","l","p">>
TxtAll  == <<"a","l","l">>
TxtSemi == <<";">>
TxtBackslash == <<"\\">>
TxtColon == <<":">>

\* executeMacro, shell.go:287-313: the macro name is the first field after
\* the colon, and indexing it faults when there is none.
executeMacro(input) ==
    LET parts == Fields(TrimPrefix(input, TxtColon))
    IN  IF parts = <<>> THEN [panic |-> TRUE, name |-> <<>>, args |-> <<>>]
        ELSE [panic |-> FALSE, name |-> parts[1], args |-> Tail(parts)]

\* shell.go:188: the trimmed line leaves the loop waiting for more.
Accumulates(line) ==
    /\ ~HasSuffix(line, TxtSemi)
    /\ ~HasPrefix(line, TxtBackslash)
    /\ line # TxtExit
    /\ line # TxtHelp

\* shell.go:183-202: from the line read to the input to dispatch.  `go` is
\* whether the loop body reaches the dispatch, `saved` what it gives to
\* rl.SaveHistory on the way.
ReadInput(line, cs, multi) ==
    IF multi
    THEN LET l == TrimSpace(line)
         IN  IF Len(l) = 0
             THEN [go |-> FALSE, cmds |-> cs, input |-> <<>>, saved |-> <<>>]
             ELSE IF Accumulates(l)
             THEN [go |-> FALSE, cmds |-> Append(cs, l), input |-> <<>>,
                   saved |-> <<>>]
             ELSE LET cmd == TrimSuffix(Join(Append(cs, l), <<" ">>), TxtSemi)
                  IN  [go |-> TRUE, cmds |-> <<>>, input |-> TrimSpace(cmd),
                       saved |-> <<cmd>>]
    ELSE [go |-> TRUE, cmds |-> cs, input |-> TrimSpace(line), saved |-> <<>>]

\* shell.go:204-281: which branch of the dispatch takes the input.
ShellCommand(input) ==
    IF input = TxtExit THEN "exit"
    ELSE IF HasPrefix(input, <<"\\","n"," ">>) THEN "namespace"
    ELSE IF input = <<"\\","d">> THEN "debug"
    ELSE IF input = <<"\\","q">> THEN "time"
    ELSE IF input = <<"\\","p","c">> THEN "printcache"
    ELSE IF input = <<"\\","c","c">> THEN "clearcache"
    ELSE IF input = <<"\\","l","m">> THEN "listmacros"
    ELSE IF input = <<"\\","r">> THEN "raw"
    ELSE IF input = <<"\\","m">> THEN "multiline"
    ELSE IF input = TxtHelp THEN "help"
    ELSE IF input # <<>> THEN "query"
    ELSE "none"

\* shell.go:216-250: the switches the dispatch toggles.
ToggleFlags(k, f) ==
    IF k = "debug"
    THEN [f EXCEPT !.LogLevel = IF @ = "debug" THEN "info" ELSE "debug"]
    ELSE IF k = "time"
    THEN [f EXCEPT !.printQueryExecutionTime = ~@]
    ELSE IF k = "raw"
    THEN [f EXCEPT !.disableColorJsonOutput = ~@]
    ELSE f

\* shell.go:207-213: the namespace command.
SetNamespace(input) ==
    LET name == ToLower(TrimPrefix(input, <<"\\","n"," ">>))
    IN  IF name = TxtAll THEN "" ELSE name

MaxLines == 3

\* Lines the user types.
ShellLines ==
    { <<"a">>,                      \* the start of a query
      <<" ","b",";">>,              \* the end of a query
      <<";">>,                      \* a semicolon alone
      <<":","m"," ","x">>,          \* a macro with one argument
      <<":">>,                      \* a colon alone
      <<" ">>,                      \* a blank line
      TxtHelp,
      TxtExit,
      <<"\\","m">>,
      <<"\\","n"," ","A","l","l">>,
      <<"\\","n"," ","K","u","b","e">>,
      <<"\\","d">> }

ShellInit ==
    /\ shPc = "read"
    /\ multiLineInput = TRUE
    /\ cmds = <<>>
    /\ shFlags = [LogLevel |-> "info", printQueryExecutionTime |-> TRUE,
                  disableColorJsonOutput |-> FALSE]
    /\ shLines = <<>>
    /\ shRan = <<>>
    /\ shHistory = <<>>

ShellIdle == ShellInit

\* One turn of the loop, shell.go:159-284: a line is read and handled.
ShellLine ==
    /\ shPc = "read"
    /\ Len(shLines) < MaxLines
    /\ \E line \in ShellLines :
        /\ shLines' = Append(shLines, line)
        /\ IF HasPrefix(line, TxtColon)
           THEN \E m \in {executeMacro(line)} :
                /\ shPc' = IF m.panic THEN "panic" ELSE "read"
                /\ shRan' = IF m.panic THEN shRan
                            ELSE Append(shRan, [kind |-> "macro", text |-> line])
                /\ shHistory' = IF m.panic THEN shHistory
                                ELSE Append(shHistory, line)
                /\ UNCHANGED <<multiLineInput, cmds, shFlags, Namespace>>
           ELSE \E r \in {ReadInput(line, cmds, multiLineInput)} :
                /\ cmds' = r.cmds
                /\ IF ~r.go
                   THEN UNCHANGED <<shPc, multiLineInput, shFlags, shRan,
                                    shHistory, Namespace>>
                   ELSE \E k \in {ShellCommand(r.input)} :
                        /\ shPc' = IF k = "exit" THEN "exit" ELSE "read"
                        /\ multiLineInput' = IF k = "multiline"
                                             THEN ~multiLineInput
                                             ELSE multiLineInput
                        /\ shFlags' = ToggleFlags(k, shFlags)
                        /\ Namespace' = IF k = "namespace"
                                        THEN SetNamespace(r.input)
                                        ELSE Namespace
                        /\ shRan' = IF k \in {"exit", "none"} THEN shRan
                                    ELSE Append(shRan, [kind |-> k,
                                                        text |-> r.input])
                        /\ shHistory' = shHistory \o r.saved \o
                                        (IF k = "exit" THEN <<>>
                                         ELSE <<r.input>>)
    /\ UNCHANGED shellFrame

\* shell.go:160-163: Readline fails (end of input, Ctrl-D) and the loop ends.
ShellEof ==
    /\ shPc = "read"
    /\ shPc' = "exit"
    /\ UNCHANGED <<multiLineInput, cmds, shFlags, shLines, shRan, shHistory,
                   Namespace>>
    /\ UNCHANGED shellFrame

-----------------------------------------------------------------------------
(* Executor singleton: GetQueryExecutorInstance (shell.go:437-453)          *)

NumGetters == 2
MaxGets    == 2

Getters == 1..NumGetters

\* How NewQueryExecutor can end, shell.go:476-508.
ConstructionOutcomes == {"ok", "config", "clientset", "dynamic"}

IdleGetter == [pc |-> "idle", rets |-> <<>>]

OnceInit ==
    /\ getters = [g \in Getters |-> IdleGetter]
    /\ onceDone = FALSE
    /\ onceM = {}
    /\ executorInstance = 0
    /\ constructions = <<>>
    /\ nWorkers = 0
    /\ nChannels = 0

OnceIdle == OnceInit

\* shell.go:442: a goroutine enters GetQueryExecutorInstance.
GetCall(g) ==
    /\ getters[g].pc = "idle"
    /\ Len(getters[g].rets) < MaxGets
    /\ getters' = [getters EXCEPT ![g].pc = "do"]
    /\ UNCHANGED <<onceDone, onceM, executorInstance, constructions, nWorkers,
                   nChannels>>
    /\ UNCHANGED onceFrame

\* shell.go:443, once.Do: the done flag is read without the mutex.
OnceDo(g) ==
    /\ getters[g].pc = "do"
    /\ getters' = [getters EXCEPT ![g].pc = IF onceDone THEN "ret" ELSE "lock"]
    /\ UNCHANGED <<onceDone, onceM, executorInstance, constructions, nWorkers,
                   nChannels>>
    /\ UNCHANGED onceFrame

\* once.Do without the second look at the done flag under the mutex.
OnceLockNoRecheck(g) ==
    /\ getters[g].pc = "lock"
    /\ onceM = {}
    /\ onceM' = {g}
    /\ getters' = [getters EXCEPT ![g].pc = "construct"]
    /\ UNCHANGED <<onceDone, executorInstance, constructions, nWorkers,
                   nChannels>>
    /\ UNCHANGED onceFrame

\* shell.go:443, once.Do: the mutex is taken and the done flag read again.
OnceLock(g) ==
    /\ getters[g].pc = "lock"
    /\ onceM = {}
    /\ onceM' = {g}
    /\ getters' = [getters EXCEPT ![g].pc = IF onceDone THEN "unlock"
                                            ELSE "construct"]
    /\ UNCHANGED <<onceDone, executorInstance, constructions, nWorkers,
                   nChannels>>
    /\ UNCHANGED onceFrame

\* shell.go:443-451 with NewQueryExecutor, shell.go:474-509: the function
\* given to once.Do runs; the channel and the worker exist only when all
\* three clients were built, and the done flag is set as the function ends.
Construct(g) ==
    /\ getters[g].pc = "construct"
    /\ \E outcome \in ConstructionOutcomes :
        /\ constructions' = Append(constructions, outcome)
        /\ executorInstance' = IF outcome = "ok" THEN Len(constructions) + 1
                               ELSE executorInstance
        /\ nChannels' = IF outcome = "ok" THEN nChannels + 1 ELSE nChannels
        /\ nWorkers' = IF outcome = "ok" THEN nWorkers + 1 ELSE nWorkers
    /\ onceDone' = TRUE
    /\ getters' = [getters EXCEPT ![g].pc = "unlock"]
    /\ UNCHANGED onceM
    /\ UNCHANGED onceFrame

\* once.Do returns: the mutex is released.
OnceUnlock(g) ==
    /\ getters[g].pc = "unlock"
    /\ onceM' = onceM \ {g}
    /\ getters' = [getters EXCEPT ![g].pc = "ret"]
    /\ UNCHANGED <<onceDone, executorInstance, constructions, nWorkers,
                   nChannels>>
    /\ UNCHANGED onceFrame

\* shell.go:452: return executorInstance.
GetReturn(g) ==
    /\ getters[g].pc = "ret"
    /\ getters' = [getters EXCEPT ![g] = [pc |-> "idle",
                                          rets |-> Append(@.rets, executorInstance)]]
    /\ UNCHANGED <<onceDone, onceM, executorInstance, constructions, nWorkers,
                   nChannels>>
    /\ UNCHANGED onceFrame

-----------------------------------------------------------------------------
(* Specifications                                                           *)

\* The executor with its callers.
Init ==
    /\ ExecInit
    /\ catalog = ExecCatalog
    /\ gvrCache = <<>>
    /\ rwReaders = {}
    /\ rwWriter = {}
    /\ procs = [p \in Procs |-> IdleProc]
    /\ hist = [p \in Procs |-> <<>>]
    /\ LexIdle
    /\ GraphIdle
    /\ ShellIdle
    /\ OnceIdle

Next ==
    \/ \E c \in Callers : Submit(c)
    \/ \E c \in Callers : Receive(c)
    \/ Acquire
    \/ FetchCall
    \/ FetchReturn
    \/ Release
    \/ Reply

Spec == Init /\ [][Next]_vars

\* The executor under a fair scheduler, every external call returning: the
\* worker goroutine is not starved at any of its steps, and a request
\* offered on the channel is taken when the worker waits to receive.
\* Callers are not obliged to submit.
Fairness ==
    /\ WF_vars(\E c \in Callers : Receive(c))
    /\ WF_vars(Acquire)
    /\ WF_vars(FetchCall)
    /\ WF_vars(FetchReturn)
    /\ WF_vars(Release)
    /\ WF_vars(Reply)

FairSpec == Init /\ [][Next]_vars /\ Fairness

\* Goroutines calling findGVR concurrently.
InitGVR == GVRInit /\ LexIdle /\ GraphIdle /\ ExecIdle /\ ShellIdle /\ OnceIdle

NextGVR ==
    \E p \in Procs :
        \/ FindGVRCall(p)
        \/ RLock(p)
        \/ CheckCache(p)
        \/ DiscoveryFails(p)
        \/ DiscoveryReturns(p)
        \/ Lock(p)
        \/ WriteCache(p)
        \/ Unlock(p)

SpecGVR == InitGVR /\ [][NextGVR]_vars

\* One sanitizeGraph call.
InitGraph == GraphInit /\ LexIdle /\ GVRIdle /\ ExecIdle /\ ShellIdle /\ OnceIdle

NextGraph == SanitizeCall

SpecGraph == InitGraph /\ [][NextGraph]_vars

\* One lexer driven to the end of its input.
InitLex == LexInit /\ GraphIdle /\ GVRIdle /\ ExecIdle /\ ShellIdle /\ OnceIdle

NextLex == LexCall

SpecLex == InitLex /\ [][NextLex]_vars

\* The lexer driven by a parser that keeps calling Lex.
FairSpecLex == InitLex /\ [][NextLex]_vars /\ WF_vars(LexCall)

\* The shell reading lines until it exits.
InitShell == ShellInit /\ LexIdle /\ GraphIdle /\ GVRIdle /\ ExecIdle /\ OnceIdle

NextShell ==
    \/ ShellLine
    \/ ShellEof

SpecShell == InitShell /\ [][NextShell]_vars

\* Goroutines calling GetQueryExecutorInstance concurrently.
InitOnce == OnceInit /\ LexIdle /\ GraphIdle /\ GVRIdle /\ ExecIdle /\ ShellIdle

NextOnce ==
    \E g \in Getters :
        \/ GetCall(g)
        \/ OnceDo(g)
        \/ OnceLock(g)
        \/ Construct(g)
        \/ OnceUnlock(g)
        \/ GetReturn(g)

SpecOnce == InitOnce /\ [][NextOnce]_vars

-----------------------------------------------------------------------------
(* Properties of the executor (checked under Spec)                          *)

\* C1: with the semaphore at capacity 1 and any number of callers
\* submitting concurrently, the number of fetchResources calls in flight
\* never exceeds the semaphore's capacity.
C1_FetchesWithinCapacity == Cardinality(inflight) <= SemCapacity

\* C1 happens: a fetch is in flight while another caller is blocked
\* submitting its own request.
C1_Witness ==
    /\ inflight # {}
    /\ \E c \in Callers : c \notin inflight /\ callers[c].pc = "send"

\* The worker's next position after each position of its loop body.
WorkerOrder ==
    [recv |-> "acquire", acquire |-> "fetch", fetch |-> "fetching",
     fetching |-> "release", release |-> "reply", reply |-> "recv"]

\* The positions at which the worker holds the token: from the acquisition
\* to the release around the fetch.
HoldingToken(w) == w.pc \in {"fetch", "fetching", "release"}

\* C13: the worker moves receive, acquire, fetch, release, reply and back to
\* receive; the token is taken exactly from the acquisition to the release
\* around the fetch, whether the fetch returned a list or an error; a fetch
\* runs only under the token; and the worker is back at receive only when
\* the reply of the request it served has been delivered, with no received
\* request left unanswered.
C13_WorkerStepOrder ==
    [][/\ worker'.pc # worker.pc => worker'.pc = WorkerOrder[worker.pc]
       /\ (semaphore > 0) <=> HoldingToken(worker)
       /\ (semaphore' > 0) <=> HoldingToken(worker')
       /\ inflight' # {} => worker'.pc = "fetching" /\ semaphore' > 0
       /\ (worker.pc = "reply" /\ worker'.pc = "recv")
              => callers[worker.to].pc = "wait" /\ callers'[worker.to].pc = "done"
       /\ worker'.pc = "recv" => \A c \in Callers : callers'[c].pc # "wait"]_vars

\* C13 happens: after a fetch that returned an error was answered, the
\* worker has received the next request and holds no token yet.
C13_Witness ==
    /\ worker.pc = "acquire"
    /\ semaphore = 0
    /\ served = 1
    /\ \E c \in Callers : callers[c].pc = "done" /\ callers[c].resp.err # "nil"

\* C14: a caller moves only from submitting to waiting when the worker
\* takes its request, and from waiting to done when the worker delivers the
\* reply of that request; replies delivered and callers answered are equal
\* in number; and every caller that submits is eventually done.
C14_EveryRequestAnswered ==
    /\ [][\A c \in Callers :
             callers'[c].pc # callers[c].pc
             => \/ callers[c].pc = "idle" /\ callers'[c].pc = "send"
                \/ /\ callers[c].pc = "send" /\ callers'[c].pc = "wait"
                   /\ worker.pc = "recv" /\ worker'.to = c
                   /\ worker'.req = callers[c].req
                \/ /\ callers[c].pc = "wait" /\ callers'[c].pc = "done"
                   /\ worker.pc = "reply" /\ worker.to = c
                   /\ callers'[c].resp = worker.resp
                   /\ served' = served + 1]_vars
    /\ [](served = Cardinality({c \in Callers : callers[c].pc = "done"}))
    /\ \A c \in Callers : (callers[c].pc = "send") ~> (callers[c].pc = "done")

\* C14 happens: one caller has its reply while another, whose request the
\* worker has taken, is still blocked.
C14_Witness ==
    \E c, d \in Callers : callers[c].pc = "done" /\ callers[d].pc = "wait"

\* The label selectors of the request universe that do not parse.
Malformed(labelSelector) == labelSelector = "app in ("

\* C18: when the worker delivers a reply, it goes to the caller whose
\* request was fetched; if kind resolution failed (the kind is not in the
\* cache after the fetch), the selector is malformed, or the List call
\* failed, the reply carries the error of the first of these and an empty
\* list, never a success; and the worker is back at receive with the token
\* free.
C18_ErrorsReachTheCaller ==
    [][(worker.pc = "reply" /\ worker'.pc = "recv")
       => LET c        == worker.to
              req      == callers[c].req
              resp     == callers'[c].resp
              resolved == ToLower(req.kind) \in DOMAIN gvrCache
          IN  /\ req = worker.req
              /\ callers'[c].pc = "done"
              /\ ~resolved => resp.err \in {"discoveryerr", "notfound", "parseerr"}
              /\ resolved /\ Malformed(req.labelSelector) => resp.err = "selectorerr"
              /\ resolved /\ ~Malformed(req.labelSelector) /\ ~worker.listOk
                     => resp.err = "listerr"
              /\ resp.err # "nil" => resp.list = emptyList
              /\ worker' = IdleWorker
              /\ semaphore' = 0]_vars

\* C18 happens: a caller has the error of a failed List call, and the
\* worker is delivering the selector error of a later request.
C18_Witness ==
    /\ worker.pc = "reply"
    /\ worker.resp.err = "selectorerr"
    /\ \E c \in Callers :
          /\ callers[c].pc = "done"
          /\ callers[c].resp.err = "listerr"
          /\ callers[c].resp.list = emptyList

\* C19 as stated: no step of the executor, a fetch included, changes the
\* ambient Namespace, whatever the all-namespaces flag is.
C19_NamespaceUnchanged == [][Namespace' = Namespace]_vars

-----------------------------------------------------------------------------
(* Properties of the resolver (checked under SpecGVR)                       *)

\* The finished calls of goroutine p, in order.
Finished(p) == DOMAIN hist[p]

\* C2: of two successive findGVR calls by one goroutine with the same
\* identifier, the first succeeding, the second returns the identical
\* coordinate and calls discovery zero times, so discovery is called at
\* most once across the two.
C2_SecondCallIsCacheHit ==
    \A p \in Procs : \A i \in Finished(p) :
        (/\ i + 1 \in Finished(p)
         /\ hist[p][i].id = hist[p][i + 1].id
         /\ hist[p][i].status = "ok")
        => /\ hist[p][i + 1].status = "ok"
           /\ hist[p][i + 1].gvr = hist[p][i].gvr
           /\ hist[p][i + 1].disc = 0
           /\ hist[p][i].disc + hist[p][i + 1].disc <= 1

\* C2 happens: a goroutine resolved an identifier through discovery and
\* then resolved the same identifier again.
C2_Witness ==
    \E p \in Procs :
        /\ Len(hist[p]) >= 2
        /\ hist[p][1].id = hist[p][2].id
        /\ hist[p][1].status = "ok"
        /\ hist[p][1].disc = 1
        /\ hist[p][2].status = "ok"

\* The names a catalog entry goes by: plural name, Kind, short names.
NamesOf(e) == {e.Name, e.Kind} \cup Range(e.ShortNames)

\* Identifier id names entry e, ignoring case.
Names(id, e) == \E n \in NamesOf(e) : EqualFold(n, id)

\* The successful finished calls, of any goroutine.
Resolved == {h \in UNION {Range(hist[p]) : p \in Procs} : h.status = "ok"}

\* C3 as stated: for every entry of the catalog, whatever the catalog
\* holds and in whatever order, successful resolves by its plural name, its
\* Kind and any of its short names all return the same coordinate.
C3_AllNamesSameCoordinate ==
    \A k \in DOMAIN catalog : \A g, h \in Resolved :
        (Names(g.id, catalog[k]) /\ Names(h.id, catalog[k])) => g.gvr = h.gvr

\* No earlier catalog entry matches any name of the entry at position k.
Unshadowed(k) ==
    \A j \in 1..(k - 1) : \A n \in NamesOf(catalog[k]) :
        ~MatchesResource(catalog[j], n, ToLower(n))

\* The coordinate of a catalog entry.
CoordinateOf(e) ==
    [Group    |-> ParseGroupVersion(e.GroupVersion).Group,
     Version  |-> ParseGroupVersion(e.GroupVersion).Version,
     Resource |-> e.Name]

\* C3 amended: for every catalog entry none of whose names is matched by an
\* earlier entry, successful resolves by its plural name, its Kind and any
\* of its short names all return that entry's own coordinate.
C3_UnshadowedNamesSameCoordinate ==
    \A k \in DOMAIN catalog : \A h \in Resolved :
        (Unshadowed(k) /\ Names(h.id, catalog[k])) => h.gvr = CoordinateOf(catalog[k])

\* C3 happens: the first of two catalog entries was resolved both by its
\* short name and by a plural name or Kind that the second entry shares.
C3_Witness ==
    /\ Len(catalog) >= 2
    /\ \E g, h \in Resolved :
          /\ Names(g.id, catalog[1]) /\ Names(h.id, catalog[1])
          /\ Names(g.id, catalog[2])
          /\ \E n \in Range(catalog[1].ShortNames) : EqualFold(n, h.id)

\* C10: apart from an explicit clear, the cache only grows and keeps its
\* values: no step of any findGVR call removes an entry or changes the
\* coordinate stored under a key.
C10_CacheWriteOnce ==
    [][\A k \in DOMAIN gvrCache :
           k \in DOMAIN gvrCache' /\ gvrCache'[k] = gvrCache[k]]_vars

\* C10 happens: a goroutine has just written a key that another
\* goroutine's earlier miss had already inserted.
C10_Witness ==
    \E p, q \in Procs :
        /\ p # q
        /\ procs[p].pc = "unlock"
        /\ procs[p].key \in DOMAIN gvrCache
        /\ \E i \in Finished(q) :
              /\ hist[q][i].status = "ok"
              /\ hist[q][i].disc = 1
              /\ ToLower(hist[q][i].id) = procs[p].key

\* Goroutine p's findGVR call returns in this step; the record of the call.
Returns(p) == Len(hist'[p]) = Len(hist[p]) + 1
Returned(p) == hist'[p][Len(hist'[p])]

\* C11: once a resolve of some spelling of an identifier has succeeded, a
\* findGVR call that looks up any letter-case spelling of that identifier
\* finds it in the cache: it returns at the lookup, successfully, with the
\* coordinate the earlier resolve returned, and without calling discovery.
C11_OtherSpellingIsCacheHit ==
    [][\A p \in Procs :
          (/\ procs[p].pc = "check"
           /\ procs'[p].pc # "check"
           /\ \E h \in Resolved : EqualFold(h.id, procs[p].id))
          => /\ Returns(p)
             /\ Returned(p).status = "ok"
             /\ Returned(p).disc = 0
             /\ \A h \in Resolved :
                    EqualFold(h.id, procs[p].id) => Returned(p).gvr = h.gvr]_vars

\* C11 happens: a goroutine resolved one spelling through discovery and
\* then resolved another letter-case spelling of it from the cache.
C11_Witness ==
    \E p \in Procs :
        /\ Len(hist[p]) >= 2
        /\ hist[p][1].id # hist[p][2].id
        /\ EqualFold(hist[p][1].id, hist[p][2].id)
        /\ hist[p][1].status = "ok"
        /\ hist[p][1].disc = 1
        /\ hist[p][2].status = "ok"
        /\ hist[p][2].disc = 0

\* C12: the cache changes only in the insertion step of a call that goes on
\* to succeed; a call that returns an error returns straight from discovery
\* or the scan, in a step that leaves the cache as it is, and its error is
\* the discovery client's own error when discovery failed and the not-found
\* message with the identifier as the caller spelled it when nothing matched.
C12_FailureLeavesCache ==
    [][/\ gvrCache' # gvrCache
          => \E p \in Procs : procs[p].pc = "write" /\ procs'[p].pc = "unlock"
       /\ \A p \in Procs :
             (Returns(p) /\ Returned(p).status # "ok")
             => /\ gvrCache' = gvrCache
                /\ procs[p].pc = "discovering"
                /\ Returned(p).status = "discoveryerr"
                       => Returned(p).err \in DiscoveryErrors
                /\ Returned(p).status = "notfound"
                       => Returned(p).err =
                              <<"resource identifier not found: ">> \o procs[p].id
       /\ \A p \in Procs :
             procs[p].pc \in {"write", "unlock"} /\ Returns(p)
             => Returned(p).status = "ok"]_vars

\* C12 happens: one call failed in discovery and another found no match for
\* an identifier spelled with capitals.
C12_Witness ==
    \E p, q \in Procs : \E i \in Finished(p), j \in Finished(q) :
        /\ hist[p][i].status = "discoveryerr"
        /\ hist[q][j].status = "notfound"
        /\ hist[q][j].id # ToLower(hist[q][j].id)

\* C17: a goroutine in the discovery call holds neither lock; the read
\* lock is held only for the lookup and the write lock only from its
\* acquisition, through the one insertion, to its release.  (That two calls
\* for one uncached identifier can both call discovery and both insert is
\* the state C17_Witness describes.)
C17_NoLockDuringDiscovery ==
    \A p \in Procs :
        /\ procs[p].pc = "discovering" => p \notin rwReaders /\ p \notin rwWriter
        /\ p \in rwReaders <=> procs[p].pc = "check"
        /\ p \in rwWriter <=> procs[p].pc \in {"write", "unlock"}
        /\ p \in rwWriter => rwWriter = {p} /\ rwReaders = {}

\* C17 happens: two goroutines each resolved the same identifier, up to
\* case, through a discovery call of its own and an insertion of its own.
C17_Witness ==
    \E p, q \in Procs :
        /\ p # q
        /\ \E i \in Finished(p), j \in Finished(q) :
              /\ EqualFold(hist[p][i].id, hist[q][j].id)
              /\ hist[p][i].status = "ok" /\ hist[p][i].disc = 1
              /\ hist[q][j].status = "ok" /\ hist[q][j].disc = 1

\* The catalog positions whose entry goes by identifier id.
MatchesAt(id) == {k \in DOMAIN catalog : Names(id, catalog[k])}

\* C20: a call that missed the cache and got the catalog from discovery is
\* decided by the first catalog entry that goes by the identifier, ignoring
\* case: it returns that entry's coordinate and the cache holds it under the
\* normalized identifier (or, if that entry's GroupVersion does not parse,
\* it returns the parse error); a later matching entry never decides, and
\* with no matching entry the call is not found.
C20_FirstMatchWins ==
    \A p \in Procs : \A i \in Finished(p) :
        LET h == hist[p][i]
            M == MatchesAt(h.id)
        IN  (h.disc = 1 /\ h.status # "discoveryerr")
            => IF M = {} THEN h.status = "notfound"
               ELSE LET first == CHOOSE k \in M : \A j \in M : k <= j
                    IN  IF ParseGroupVersion(catalog[first].GroupVersion).ok
                        THEN /\ h.status = "ok"
                             /\ h.gvr = CoordinateOf(catalog[first])
                             /\ ToLower(h.id) \in DOMAIN gvrCache
                             /\ gvrCache[ToLower(h.id)] = h.gvr
                        ELSE h.status = "parseerr"

\* C20 happens: both entries of the catalog go by the identifier of a call
\* that went through discovery, they have different coordinates, and the
\* call returned the first one's.
C20_Witness ==
    /\ Len(catalog) >= 2
    /\ CoordinateOf(catalog[1]) # CoordinateOf(catalog[2])
    /\ ParseGroupVersion(catalog[2].GroupVersion).ok
    /\ \E h \in Resolved :
          /\ h.disc = 1
          /\ Names(h.id, catalog[1]) /\ Names(h.id, catalog[2])
          /\ h.gvr = CoordinateOf(catalog[1])

-----------------------------------------------------------------------------
(* Further properties of the executor (checked under Spec)                  *)

\* A request is pending: its caller is blocked sending it or waiting for
\* its reply.
Pending(c) == callers[c].pc \in {"send", "wait"}

\* C23: in every reachable state with a pending request, a step of the
\* protocol can be taken: the worker can receive a request or take the next
\* step of the one it is serving (a fetch that is running returns).
C23_NoDeadlock ==
    (\E c \in Callers : Pending(c))
    => ENABLED (\/ \E c \in Callers : Receive(c)
                \/ Acquire
                \/ FetchCall
                \/ FetchReturn
                \/ Release
                \/ Reply)

\* C23 happens: every caller has a request pending while the worker is
\* about to deliver a reply.
C23_Witness ==
    /\ \A c \in Callers : Pending(c)
    /\ worker.pc = "reply"

\* The reply resp is one that a fetch of request req can produce: a list
\* of the kind req names, filtered by req's own selectors, or an error that
\* req can run into.
ReplyOf(req, resp) ==
    LET named == {k \in DOMAIN ExecCatalog : Names(req.kind, ExecCatalog[k])}
    IN  /\ resp.err \in {"nil", "discoveryerr", "notfound", "selectorerr", "listerr"}
        /\ resp.err = "nil"
               => /\ named # {}
                  /\ \E k \in named : resp.list.gvr = CoordinateOf(ExecCatalog[k])
                  /\ resp.list.fieldSelector = req.fieldSelector
                  /\ ~Malformed(req.labelSelector)
                  /\ resp.list.labelSelector = LabelSelectorString(req.labelSelector).text
        /\ resp.err # "nil" => resp.list = emptyList
        /\ resp.err = "notfound" => named = {}
        /\ resp.err \in {"selectorerr", "listerr"} => named # {}
        /\ resp.err = "selectorerr" => Malformed(req.labelSelector)
        /\ resp.err = "listerr" => ~Malformed(req.labelSelector)

\* C24: whatever the interleaving, a caller that has its reply has a reply
\* of its own request, and the delivery of a reply changes no other caller.
C24_OwnReply ==
    /\ [](\A c \in Callers : callers[c].pc = "done" => ReplyOf(callers[c].req, callers[c].resp))
    /\ [][worker.pc = "reply" /\ worker'.pc = "recv"
          => /\ worker.req = callers[worker.to].req
             /\ callers'[worker.to].resp = worker.resp
             /\ \A c \in Callers \ {worker.to} : callers'[c] = callers[c]]_vars

\* C24 happens: two callers that submitted different requests each have a
\* reply, and the replies differ.
C24_Witness ==
    \E c, d \in Callers :
        /\ callers[c].pc = "done" /\ callers[d].pc = "done"
        /\ callers[c].req # callers[d].req
        /\ callers[c].resp # callers[d].resp

-----------------------------------------------------------------------------
(* Properties of sanitizeGraph (checked under SpecGraph)                    *)

\* The ids (Kind/Name) of the nodes of a graph.
NodeIds(g) == {SprintfId(g.Nodes[i].Kind, g.Nodes[i].Name) : i \in DOMAIN g.Nodes}

\* The node id names a node of the input (duplicates collapsed to the last
\* one listed) under whose Id the result lists a document with its Name.
HasMatchedDocument(id) ==
    \E i \in DOMAIN gIn.Nodes :
        LET n == gIn.Nodes[i]
        IN  /\ SprintfId(n.Kind, n.Name) = id
            /\ \A j \in DOMAIN gIn.Nodes :
                   j > i => SprintfId(gIn.Nodes[j].Kind, gIn.Nodes[j].Name) # id
            /\ gResult.map[n.Id].kind = "list"
            /\ \E d \in DOMAIN gResult.map[n.Id].docs : gResult.map[n.Id].docs[d] = n.Name

\* C4: the returned edges are exactly the input edges both of whose ends
\* name a node with a surviving matched document, unchanged and in their
\* original order; every returned edge runs between nodes of the returned
\* graph.
C4_EdgesOfSurvivingNodes ==
    gpc = "ok" =>
        /\ gOut.Edges = SelectSeq(gIn.Edges,
                                  LAMBDA e : HasMatchedDocument(e.From)
                                                 /\ HasMatchedDocument(e.To))
        /\ \A i \in DOMAIN gOut.Edges :
               gOut.Edges[i].From \in NodeIds(gOut) /\ gOut.Edges[i].To \in NodeIds(gOut)

\* C4 happens: of two edges, the one touching an emptied node was dropped
\* and the other kept.
C4_Witness ==
    /\ gpc = "ok"
    /\ Len(gIn.Edges) = 2
    /\ Len(gOut.Edges) = 1
    /\ \E i \in DOMAIN gIn.Edges :
          ~HasMatchedDocument(gIn.Edges[i].From) \/ ~HasMatchedDocument(gIn.Edges[i].To)

\* C5 as stated: after sanitizeGraph returns without error no two nodes of
\* the returned graph share Kind and Name.
C5_UniqueNodes ==
    gpc = "ok" =>
        \A i, j \in DOMAIN gOut.Nodes :
            i # j => SprintfId(gOut.Nodes[i].Kind, gOut.Nodes[i].Name)
                        # SprintfId(gOut.Nodes[j].Kind, gOut.Nodes[j].Name)

-----------------------------------------------------------------------------
(* Properties of the lexer (checked under SpecLex)                          *)

\* Lex has returned the EOF token.
EofEmitted == \E i \in DOMAIN lexOut : lexOut[i].tok = EOF

\* C6: once Lex has returned EOF, every later call returns end-of-input
\* (0) without scanning and leaves position, lookback slot, definingProps
\* and the caller's lval as they were.
C6_EofSticky ==
    [][EofEmitted =>
           /\ lexOut' = Append(lexOut, [tok |-> 0, lit |-> strVal])
           /\ nScan' = nScan
           /\ lexPos' = lexPos
           /\ bufTok' = bufTok
           /\ definingProps' = definingProps
           /\ strVal' = strVal]_vars

\* C6 happens: Lex was called again after it had returned EOF at the end
\* of a text whose last token was not EOF.
C6_Witness ==
    /\ AfterEof >= 2
    /\ Len(lexOut) >= 4
    /\ lexPos = Len(lexInput) + 1

\* The tokens Lex returned up to and including the first EOF.
UpToEof ==
    SubSeq(lexOut, 1, CHOOSE i \in DOMAIN lexOut :
                          lexOut[i].tok = EOF /\ \A j \in 1..(i - 1) : lexOut[j].tok # EOF)

Tokens(out) == [i \in DOMAIN out |-> out[i].tok]

\* C7 as stated: RETURN d.metadata.name, d.spec.replicas lexes to RETURN,
\* the path literal d.metadata.name, the separator, the path literal
\* d.spec.replicas, and the end of input.
C7_TwoPathLiterals ==
    (lexInput = TxtReturnTwo /\ EofEmitted) =>
        /\ Tokens(UpToEof) = <<RETURN, JSONPATH, COMMA, JSONPATH, EOF>>
        /\ UpToEof[2].lit = SubSeq(TxtReturnTwo, 8, 22)
        /\ UpToEof[4].lit = SubSeq(TxtReturnTwo, 25, 39)

\* C8 as stated: match, MATCH and MaTcH lex to the keyword token, and the
\* binding Match after "(" lexes to IDENT with text Match.
C8_KeywordCaseAndBinding ==
    /\ (lexInput \in {TxtMatchLower, TxtMatchUpper, TxtMatchMixed} /\ Len(lexOut) >= 1)
           => lexOut[1].tok = MATCH
    /\ (lexInput = TxtMatchBinding /\ Len(lexOut) >= 2)
           => lexOut[2] = [tok |-> IDENT, lit |-> <<"M","a","t","c","h">>]

\* C9: MATCH (d:Deployment) lexes to exactly MATCH, "(", IDENT d, ":",
\* IDENT Deployment, ")", EOF, and nothing but end-of-input after that.
C9_MatchNodeTokens ==
    lexInput = TxtMatchNode =>
        /\ \A i \in DOMAIN lexOut :
               lexOut[i].tok =
                   IF i <= 7 THEN <<MATCH, LPAREN, IDENT, COLON, IDENT, RPAREN, EOF>>[i]
                   ELSE 0
        /\ Len(lexOut) >= 3 => lexOut[3].lit = <<"d">>
        /\ Len(lexOut) >= 5 => lexOut[5].lit = SubSeq(TxtMatchNode, 10, 19)

\* C9 happens: the whole of MATCH (d:Deployment) has been lexed.
C9_Witness == lexInput = TxtMatchNode /\ EofEmitted

\* Number of property blocks open after the first n tokens emitted: the
\* LBRACE tokens not yet closed by an RBRACE.
OpenBlocks(n) ==
    Cardinality({i \in 1..n : lexOut[i].tok = LBRACE})
        - Cardinality({i \in 1..n : lexOut[i].tok = RBRACE})

\* C15 as stated: every path-literal token directly follows a RETURN, an
\* LBRACE, or a COMMA read inside an open property block; none is the first
\* token or follows a token of another kind.
C15_PathLiteralFollowsTrigger ==
    \A i \in DOMAIN lexOut :
        lexOut[i].tok = JSONPATH
        => /\ i > 1
           /\ \/ lexOut[i - 1].tok \in {RETURN, LBRACE}
              \/ lexOut[i - 1].tok = COMMA /\ OpenBlocks(i - 1) > 0

\* C16 as stated: definingProps is on exactly while a property block is
\* open, and the token after a COMMA is a path literal exactly when the
\* COMMA was read inside an open property block.
C16_DefiningPropsInsideBraces ==
    /\ definingProps <=> OpenBlocks(Len(lexOut)) > 0
    /\ \A i \in DOMAIN lexOut :
           (lexOut[i].tok = COMMA /\ i + 1 \in DOMAIN lexOut)
           => (lexOut[i + 1].tok = JSONPATH <=> OpenBlocks(i) > 0)

\* The scanner tokens the switch of Lex has a case for (lexer.go:66-123).
Recognised ==
    {"Ident", "EOF", "(", ":", ")", " ", "\t", "\r", "{", "}", "String", "Int", ","}

\* The values Lex returns at the end of the input: the EOF token when the
\* scanner reaches it (lexer.go:88) and 0 on every call after (lexer.go:36).
EndOfInputReturns == {EOF, 0}

\* The value returned by the Lex call of this step.
LexReturned == lexOut'[Len(lexOut')].tok

\* C22 as stated: a Lex call that scans a token the switch has no case for
\* returns the illegal-token marker, and that value is none of the values
\* Lex returns at the end of the input.
C22_IllegalDiffersFromEnd ==
    [][(/\ bufTok # EOF
        /\ ~CapturingJsonPath(bufTok, definingProps)
        /\ Scan(lexInput, lexPos).tok \notin Recognised)
       => /\ LexReturned = ILLEGAL
          /\ LexReturned \notin EndOfInputReturns]_vars

\* C25: every Lex call made before the end of the input was reported either
\* moves the read position forward, or reports the end of the input, or is
\* a raw capture that leaves the lookback slot in a state that does not
\* capture again; and the end of the input is eventually reported.
C25_LexReachesEnd ==
    /\ [][bufTok # EOF
          => \/ lexPos' > lexPos
             \/ LexReturned = EOF
             \/ /\ CapturingJsonPath(bufTok, definingProps)
                /\ ~CapturingJsonPath(bufTok', definingProps')]_vars
    /\ <>EofEmitted

\* C25 happens: the end of the input was reported after a raw capture that
\* found no path character.
C25_Witness ==
    /\ EofEmitted
    /\ \E i \in DOMAIN lexOut : lexOut[i].tok = JSONPATH /\ lexOut[i].lit = <<>>

-----------------------------------------------------------------------------
(* Properties of the shell's read loop (checked under SpecShell)            *)

\* The loop has just handled a line.
LineRead == Len(shLines') = Len(shLines) + 1

LastLine == shLines'[Len(shLines')]

\* C21: in multi-line mode, non-empty lines accumulate until a line ending
\* in ';' is entered; the query then executed is the accumulated lines
\* joined by single spaces with the trailing ';' removed, and the buffer is
\* empty afterwards; a macro line is executed at once and leaves the
\* accumulated lines as they were.  Lines are taken without their
\* surrounding white space, and a blank line is not constrained.
C21_AccumulateUntilSemicolon ==
    [][(LineRead /\ multiLineInput) =>
         LET l == TrimSpace(LastLine)
         IN  IF HasPrefix(LastLine, TxtColon)
             THEN /\ cmds' = cmds
                  /\ shRan' = Append(shRan, [kind |-> "macro", text |-> LastLine])
             ELSE IF l = <<>> THEN TRUE
             ELSE IF ~HasSuffix(l, TxtSemi)
             THEN /\ cmds' = Append(cmds, l)
                  /\ shRan' = shRan
             ELSE /\ cmds' = <<>>
                  /\ shRan' = Append(shRan,
                        [kind |-> "query",
                         text |-> TrimSuffix(Join(Append(cmds, l), <<" ">>),
                                             TxtSemi)])
      ]_vars

-----------------------------------------------------------------------------
(* Properties of the executor singleton (checked under SpecOnce)            *)

\* The values the calls made so far have returned.
Returned26 == UNION {Range(getters[g].rets) : g \in Getters}

\* C26: however many goroutines call GetQueryExecutorInstance at once,
\* NewQueryExecutor runs at most once, so at most one worker and one
\* request channel are ever made, and every call returns the same
\* instance; when that one construction failed, every call returns nil and
\* the construction is not tried again.
C26_ConstructedOnce ==
    /\ Len(constructions) <= 1
    /\ nWorkers <= 1
    /\ nChannels <= 1
    /\ Returned26 \subseteq {executorInstance}
    /\ \A g \in Getters : getters[g].pc = "ret" => Len(constructions) = 1
    /\ (constructions # <<>> /\ constructions[1] # "ok") =>
           /\ executorInstance = 0
           /\ nWorkers = 0
           /\ nChannels = 0
    /\ (constructions # <<>> /\ constructions[1] = "ok") =>
           /\ executorInstance = 1
           /\ nWorkers = 1
           /\ nChannels = 1

\* The construction failed; one goroutine has called twice and was handed
\* nil both times while another is still inside its first once.Do.
C26_Witness ==
    /\ constructions # <<>>
    /\ constructions[1] # "ok"
    /\ \E g, h \in Getters :
          /\ g # h
          /\ getters[g].rets = <<0, 0>>
          /\ getters[h].rets = <<>>
          /\ getters[h].pc = "unlock"

=============================================================================
